---- MODULE Spec2Model ----
(***************************************************************************)
(* Prescription reminder (src/app.py): a Flask application that stores     *)
(* reminders in SQLite and arms one-off APScheduler jobs that print a      *)
(* notification and re-arm themselves for repeating reminders.             *)
(*                                                                         *)
(* Time is counted in ticks; a minute is TicksPerMin ticks, so a tick is a *)
(* whole number of seconds.  The stored ISO text "YYYY-MM-DDTHH:MM" is     *)
(* represented by the number of the minute it names.  The wall clock and   *)
(* the scheduler's time zone are taken to agree and to be monotonic.       *)
(*                                                                         *)
(* The scheduler (APScheduler's BackgroundScheduler) is a library: a job   *)
(* is kept in a store keyed by its job id, becomes runnable once its run   *)
(* date has been reached, is removed from the store when it is handed to   *)
(* a worker thread (a DateTrigger has no second run), and the worker then  *)
(* runs fire_reminder.  How late a runnable job is handed over, and how    *)
(* late the worker runs each statement, is not fixed by the program: the   *)
(* clock may advance between any two steps.                                *)
(***************************************************************************)
EXTENDS Integers, Sequences, FiniteSets, Bags, TLC

VARIABLES
    clock,       \* datetime.now(), in ticks
    db,          \* table reminders: id -> row, for the ids that have a row
    nextId,      \* SQLite's AUTOINCREMENT counter: the next id handed out
    jobs,        \* the scheduler's job store: a set of armed one-off jobs
    calls,       \* bag of invocations in flight (requests, workers, bootstrap's schedule_job)
    boot,        \* the main thread: bootstrap_jobs, then app.run
    sink,        \* what fire_reminder has printed so far
    formRepeat,  \* history: the repeat_minutes form field each reminder was created with
    deleted,     \* history: ids that delete_reminder has removed
    aborted      \* history: ids for which a fire found no row and returned

vars == <<clock, db, nextId, jobs, calls, boot, sink, formRepeat, deleted, aborted>>

----------------------------------------------------------------------------
(* Bounds of the model *)

TicksPerMin == 2     \* ticks in a minute: the resolution of the clock
MaxMinute == 2       \* the clock stops after this many minutes
MaxReminders == 2    \* reminders ever created
MaxCalls == 2        \* request and worker threads in flight at once
MaxNotes == 1        \* schedule_job is called from outside only while fewer notifications are printed

MaxClock == MaxMinute * TicksPerMin

(* Inputs of the create form *)
Forms == { [med |-> "aspirin", dosage |-> "100mg"],
           [med |-> "ibuprofen", dosage |-> "200mg"] }
WhenInputs == 0..MaxClock
RepeatForms == {"", "-1", "0", "1", "2"}

----------------------------------------------------------------------------
(* Conversions *)

Null == <<>>

\* datetime.isoformat(timespec="minutes"): the seconds are cut off
IsoMinutes(t) == t \div TicksPerMin

\* datetime.fromisoformat of a stored minute-precision text
FromIso(m) == m * TicksPerMin

\* timedelta(minutes=r)
Minutes(r) == r * TicksPerMin

\* int(when.timestamp()): whole seconds since the epoch
SecondsPerTick == 60 \div TicksPerMin
Timestamp(when) == when * SecondsPerTick

\* str.isdigit() and int() on the repeat_minutes form field
IsDigit(s) == s \in {"0", "1", "2"}
ToInt(s) == CASE s = "0" -> 0 [] s = "1" -> 1 [] s = "2" -> 2 [] s = "-1" -> -1

\* variant: a number that is not positive is raised to 1
ParseRepeatClamped(s) ==
    IF IsDigit(s) THEN <<IF ToInt(s) > 0 THEN ToInt(s) ELSE 1>> ELSE Null

\* line 125: int(repeat) if repeat.isdigit() and int(repeat) > 0 else None
ParseRepeat(s) == IF IsDigit(s) /\ ToInt(s) > 0 THEN <<ToInt(s)>> ELSE Null

\* line 86: repeat_minutes and repeat_minutes > 0
IsRepeatingAboveOne(rep) == rep # Null /\ rep[1] # 0 /\ rep[1] > 1
IsRepeating(rep) == rep # Null /\ rep[1] # 0 /\ rep[1] > 0

----------------------------------------------------------------------------
(* Record store *)

\* the row save_reminder inserts
NewRow(med, dosage, schedule_dt, repeat_minutes, now) ==
    [ med_name       |-> med,
      dosage         |-> dosage,
      schedule_time  |-> IsoMinutes(schedule_dt),
      repeat_minutes |-> repeat_minutes,
      created_at     |-> IsoMinutes(now) ]

\* variant: without AUTOINCREMENT the id is one more than the largest stored id
LastRowIdReused(d, counter) ==
    IF DOMAIN d = {} THEN 1 ELSE (CHOOSE a \in DOMAIN d : \A b \in DOMAIN d : b <= a) + 1

\* INTEGER PRIMARY KEY AUTOINCREMENT: ids grow and are never handed out twice
LastRowId(d, counter) == counter

\* INSERT INTO reminders
InsertRow(d, rid, row) == d @@ (rid :> row)

\* get_reminder: fetchone() gives the row, or None
HasRow(d, rid) == rid \in DOMAIN d

\* DELETE FROM reminders WHERE id = ?
DeleteReminderDb(d, rid) == [i \in DOMAIN d \ {rid} |-> d[i]]

\* variant: the UPDATE has no WHERE clause
UpdateScheduleTimeAll(d, rid, next_time) ==
    [i \in DOMAIN d |-> [d[i] EXCEPT !.schedule_time = IsoMinutes(next_time)]]

\* variant: an upsert, which writes a row when there is none
UpdateScheduleTimeUpsert(d, rid, next_time) ==
    IF rid \in DOMAIN d
    THEN [d EXCEPT ![rid].schedule_time = IsoMinutes(next_time)]
    ELSE InsertRow(d, rid, NewRow("", "", next_time, Null, 0))

\* UPDATE reminders SET schedule_time = ? WHERE id = ?  (no row: nothing happens)
UpdateScheduleTime(d, rid, next_time) ==
    IF rid \in DOMAIN d
    THEN [d EXCEPT ![rid].schedule_time = IsoMinutes(next_time)]
    ELSE d

\* ORDER BY datetime(schedule_time) ASC; rows of equal time come in rowid order
RowBefore(d, a, b) ==
    \/ d[a].schedule_time < d[b].schedule_time
    \/ d[a].schedule_time = d[b].schedule_time /\ a < b

RECURSIVE OrderedIds(_, _)
OrderedIds(d, ids) ==
    IF ids = {} THEN <<>>
    ELSE LET first == CHOOSE a \in ids : \A b \in ids \ {a} : RowBefore(d, a, b)
         IN  <<first>> \o OrderedIds(d, ids \ {first})

\* get_all_reminders: every row, with its id
GetAllReminders(d) ==
    LET ids == OrderedIds(d, DOMAIN d)
    IN  [k \in 1..Len(ids) |-> [id |-> ids[k], row |-> d[ids[k]]]]

----------------------------------------------------------------------------
(* Job store *)

\* variant: the job id names the time only
JobIdByTime(reminder_id, when) == <<"reminder", Timestamp(when)>>

\* variant: the job id names the instant of the call, not the due time
JobIdByNow(reminder_id, when) == <<"reminder", reminder_id, Timestamp(clock)>>

\* line 66: f"reminder_{reminder_id}_{int(when.timestamp())}"
JobId(reminder_id, when) == <<"reminder", reminder_id, Timestamp(when)>>

\* the job add_job is given: id, DateTrigger(run_date=when), args=[reminder_id]
NewJob(reminder_id, when) ==
    [id |-> JobId(reminder_id, when), rid |-> reminder_id, when |-> when]

\* variant: the lookup finds nothing
GetJobNone(js, job_id) == FALSE

\* scheduler.get_job(job_id)
GetJob(js, job_id) == \E j \in js : j.id = job_id

\* scheduler.add_job(..., replace_existing=True): a job of the same id is replaced
AddJob(js, job) == {j \in js : j.id # job.id} \cup {job}

\* variant: the job stays in the store after it has run
RemoveRunJobKept(js, job) == js

\* a DateTrigger job that has been handed to a worker leaves the store
RemoveRunJob(js, job) == js \ {job}

\* variant: delete_reminder removes the jobs of the reminder
JobsAfterDeleteCancelled(js, reminder_id) == {j \in js : j.rid # reminder_id}

\* delete_reminder leaves the job store as it is (lines 140-142)
JobsAfterDelete(js, reminder_id) == js

----------------------------------------------------------------------------
(* Invocations in flight *)

Call(pc, rid, when, caller) == [pc |-> pc, rid |-> rid, when |-> when, caller |-> caller]

Running == BagToSet(calls)
Without(c) == calls (-) SetToBag({c})
Become(c, d) == Without(c) (+) SetToBag({d})

\* request and worker threads in flight (the main thread is not one of them)
Busy == BagCardinality(calls) - Cardinality({c \in Running : c.caller = "boot"})

BootIdle == [pc |-> "start", rows |-> <<>>, i |-> 0, now |-> 0]
BootDone == [pc |-> "done", rows |-> <<>>, i |-> 0, now |-> 0]

\* line 83: print(...)
Note(rid, row) ==
    [ rid |-> rid, med |-> row.med_name, dosage |-> row.dosage, due |-> row.schedule_time,
      n |-> Cardinality({x \in sink : x.rid = rid}) + 1 ]

----------------------------------------------------------------------------
(* The state after the process has started on an empty database: init_db and
   scheduler.start() are done, bootstrap_jobs is about to run. *)
Init ==
    /\ clock = 0
    /\ db = <<>>
    /\ nextId = 1
    /\ jobs = {}
    /\ calls = EmptyBag
    /\ boot = BootIdle
    /\ sink = {}
    /\ formRepeat = <<>>
    /\ deleted = {}
    /\ aborted = {}

\* the wall clock moves on
Tick ==
    /\ clock < MaxClock
    /\ clock' = clock + 1
    /\ UNCHANGED <<db, nextId, jobs, calls, boot, sink, formRepeat, deleted, aborted>>

\* POST /: lines 110-127.  The form is valid; the row is saved.
Index(form, when, repeat) ==
    /\ boot.pc = "done"
    /\ nextId <= MaxReminders
    /\ Busy < MaxCalls
    /\ LET rid == LastRowId(db, nextId)
       IN  /\ db' = InsertRow(db, rid,
                        NewRow(form.med, form.dosage, when, ParseRepeat(repeat), clock))
           /\ formRepeat' = formRepeat @@ (rid :> repeat)
           /\ calls' = calls (+) SetToBag({Call("index_cmp", rid, when, "index")})
    /\ nextId' = nextId + 1
    /\ UNCHANGED <<clock, jobs, boot, sink, deleted, aborted>>

\* lines 129-130: if schedule_dt > datetime.now(): schedule_job(rid, schedule_dt)
IndexCompare(c) ==
    /\ c.pc = "index_cmp"
    /\ calls' = IF c.when > clock
                THEN Become(c, Call("sched_check", c.rid, c.when, c.caller))
                ELSE Without(c)
    /\ UNCHANGED <<clock, db, nextId, jobs, boot, sink, formRepeat, deleted, aborted>>

\* schedule_job, lines 66-68: the presence check
ScheduleJobCheck(c) ==
    /\ c.pc = "sched_check"
    /\ calls' = IF GetJob(jobs, JobId(c.rid, c.when))
                THEN Without(c)
                ELSE Become(c, Call("sched_add", c.rid, c.when, c.caller))
    /\ UNCHANGED <<clock, db, nextId, jobs, boot, sink, formRepeat, deleted, aborted>>

\* schedule_job, lines 69-75: add_job
ScheduleJobAdd(c) ==
    /\ c.pc = "sched_add"
    /\ jobs' = AddJob(jobs, NewJob(c.rid, c.when))
    /\ calls' = Without(c)
    /\ UNCHANGED <<clock, db, nextId, boot, sink, formRepeat, deleted, aborted>>

\* the scheduler hands a job whose run date has come to a worker
Dispatch(j) ==
    /\ j.when <= clock
    /\ Busy < MaxCalls
    /\ jobs' = RemoveRunJob(jobs, j)
    /\ calls' = calls (+) SetToBag({Call("fire", j.rid, 0, "fire")})
    /\ UNCHANGED <<clock, db, nextId, boot, sink, formRepeat, deleted, aborted>>

\* variant: the next time is counted from the instant of the fire
NextTimeFromNow(schedule_time, repeat_minutes) == clock + Minutes(repeat_minutes)

\* line 87: datetime.fromisoformat(schedule_time) + timedelta(minutes=repeat_minutes)
NextTime(schedule_time, repeat_minutes) == FromIso(schedule_time) + Minutes(repeat_minutes)

\* fire_reminder, lines 79-87
FireReminder(c) ==
    /\ c.pc = "fire"
    /\ IF ~HasRow(db, c.rid)
       THEN /\ calls' = Without(c)
            /\ aborted' = aborted \cup {c.rid}
            /\ sink' = sink
       ELSE LET row == db[c.rid]
            IN  /\ sink' = sink \cup {Note(c.rid, row)}
                /\ aborted' = aborted
                /\ calls' =
                     IF IsRepeating(row.repeat_minutes)
                     THEN Become(c, Call("fire_update", c.rid,
                                         NextTime(row.schedule_time, row.repeat_minutes[1]),
                                         c.caller))
                     ELSE Without(c)
    /\ UNCHANGED <<clock, db, nextId, jobs, boot, formRepeat, deleted>>

\* fire_reminder, lines 89-94: store the next time, then schedule_job
FireUpdate(c) ==
    /\ c.pc = "fire_update"
    /\ db' = UpdateScheduleTime(db, c.rid, c.when)
    /\ calls' = Become(c, Call("sched_check", c.rid, c.when, c.caller))
    /\ UNCHANGED <<clock, nextId, jobs, boot, sink, formRepeat, deleted, aborted>>

\* POST /delete/<id>: lines 139-144
DeleteReminder(rid) ==
    /\ boot.pc = "done"
    /\ HasRow(db, rid)
    /\ db' = DeleteReminderDb(db, rid)
    /\ jobs' = JobsAfterDelete(jobs, rid)
    /\ deleted' = deleted \cup {rid}
    /\ UNCHANGED <<clock, nextId, calls, boot, sink, formRepeat, aborted>>

\* bootstrap_jobs, lines 98-99
BootstrapStart ==
    /\ boot.pc = "start"
    /\ boot' = [pc |-> "loop", rows |-> GetAllReminders(db), i |-> 1, now |-> clock]
    /\ UNCHANGED <<clock, db, nextId, jobs, calls, sink, formRepeat, deleted, aborted>>

\* variant: a reminder due exactly now counts as still to come
IsFutureOrNow(when, now) == when >= now

\* line 105: if when > now
IsFuture(when, now) == when > now

\* bootstrap_jobs, lines 100-106: one turn of the loop, once the previous
\* schedule_job has returned; after the last row app.run starts serving
BootstrapLoop ==
    /\ boot.pc = "loop"
    /\ \A c \in Running : c.caller # "boot"
    /\ IF boot.i > Len(boot.rows)
       THEN /\ boot' = BootDone
            /\ calls' = calls
       ELSE LET r == boot.rows[boot.i]
                when == FromIso(r.row.schedule_time)
            IN  /\ boot' = [boot EXCEPT !.i = boot.i + 1]
                /\ calls' = IF IsFuture(when, boot.now)
                            THEN calls (+) SetToBag({Call("sched_check", r.id, when, "boot")})
                            ELSE calls
    /\ UNCHANGED <<clock, db, nextId, jobs, sink, formRepeat, deleted, aborted>>

\* the process is stopped and started again: the job store and every thread
\* are gone, the database and what was printed stay
Restart ==
    /\ jobs' = {}
    /\ calls' = EmptyBag
    /\ boot' = BootIdle
    /\ UNCHANGED <<clock, db, nextId, sink, formRepeat, deleted, aborted>>

Next ==
    \/ Tick
    \/ \E form \in Forms, when \in WhenInputs, repeat \in RepeatForms : Index(form, when, repeat)
    \/ \E c \in Running : IndexCompare(c)
    \/ \E c \in Running : ScheduleJobCheck(c)
    \/ \E c \in Running : ScheduleJobAdd(c)
    \/ \E j \in jobs : Dispatch(j)
    \/ \E c \in Running : FireReminder(c)
    \/ \E c \in Running : FireUpdate(c)
    \/ \E rid \in DOMAIN db : DeleteReminder(rid)
    \/ BootstrapStart
    \/ BootstrapLoop
    \/ Restart

Spec == Init /\ [][Next]_vars

----------------------------------------------------------------------------
(* schedule_job called by any thread of the serving process, with any
   arguments: the function on its own, next to the application's own calls *)

\* its inputs, and the smaller set of create forms that goes with them
ScheduleWhens == {TicksPerMin, 2 * TicksPerMin}
SchedForms == {[med |-> "aspirin", dosage |-> "100mg"]}
SchedIndexWhens == {TicksPerMin}
SchedRepeatForms == {"1"}

ScheduleJob(reminder_id, when) ==
    /\ boot.pc = "done"
    /\ Busy < MaxCalls
    /\ Cardinality(sink) < MaxNotes
    /\ calls' = calls (+) SetToBag({Call("sched_check", reminder_id, when, "direct")})
    /\ UNCHANGED <<clock, db, nextId, jobs, boot, sink, formRepeat, deleted, aborted>>

NextSched ==
    \/ Tick
    \/ \E form \in SchedForms, when \in SchedIndexWhens, repeat \in SchedRepeatForms :
          Index(form, when, repeat)
    \/ \E c \in Running : IndexCompare(c)
    \/ \E c \in Running : ScheduleJobCheck(c)
    \/ \E c \in Running : ScheduleJobAdd(c)
    \/ \E j \in jobs : Dispatch(j)
    \/ \E c \in Running : FireReminder(c)
    \/ \E c \in Running : FireUpdate(c)
    \/ \E rid \in DOMAIN db : DeleteReminder(rid)
    \/ BootstrapStart
    \/ BootstrapLoop
    \/ Restart
    \/ \E rid \in 1..MaxReminders, when \in ScheduleWhens : ScheduleJob(rid, when)

SpecSched == Init /\ [][NextSched]_vars


----------------------------------------------------------------------------
(* One run of the process, with the scheduling the program relies on: the
   clock moves on, the scheduler hands every job that has come due to a worker,
   and every thread goes on to its next statement.  Requests (create, delete)
   may or may not come.  The process is not stopped. *)

LiveForms == {[med |-> "aspirin", dosage |-> "100mg"]}
LiveWhens == {1, TicksPerMin}
LiveRepeatForms == {"", "1"}

NextLive ==
    \/ Tick
    \/ \E form \in LiveForms, when \in LiveWhens, repeat \in LiveRepeatForms :
          Index(form, when, repeat)
    \/ \E c \in Running : IndexCompare(c)
    \/ \E c \in Running : ScheduleJobCheck(c)
    \/ \E c \in Running : ScheduleJobAdd(c)
    \/ \E j \in jobs : Dispatch(j)
    \/ \E c \in Running : FireReminder(c)
    \/ \E c \in Running : FireUpdate(c)
    \/ \E rid \in DOMAIN db : DeleteReminder(rid)
    \/ BootstrapStart
    \/ BootstrapLoop

SpecLive ==
    /\ Init
    /\ [][NextLive]_vars
    /\ WF_vars(Tick)
    /\ WF_vars(BootstrapStart)
    /\ WF_vars(BootstrapLoop)
    /\ WF_vars(\E c \in Running : IndexCompare(c))
    /\ WF_vars(\E c \in Running : ScheduleJobCheck(c))
    /\ WF_vars(\E c \in Running : ScheduleJobAdd(c))
    /\ WF_vars(\E j \in jobs : Dispatch(j))
    /\ WF_vars(\E c \in Running : FireReminder(c))
    /\ WF_vars(\E c \in Running : FireUpdate(c))

----------------------------------------------------------------------------
(* Vocabulary of the properties *)

\* the step stops the process and starts it again
Restarted == boot.pc # "start" /\ boot'.pc = "start"

\* the step is a step of invocation c
Stepped(c) == /\ ~Restarted
              /\ c \in Running
              /\ CopiesIn(c, calls') < CopiesIn(c, calls)

NotesOf(snk, rid) == {x \in snk : x.rid = rid}
TimersOf(js, rid) == {j \in js : j.rid = rid}
CallsOf(rid) == {c \in Running : c.rid = rid}
Armed(js, rid, when) == \E j \in js : j.rid = rid /\ j.when = when

\* the repeat field was left empty, or holds a number that is not positive
NoRepeatForm(s) == s = "" \/ ToInt(s) <= 0

----------------------------------------------------------------------------
\* C1: a schedule_job call that finds a timer armed for its reminder id and due
\* time returns at the presence check: the job store is left as it is, with
\* exactly one timer for that id and time.
C1_ScheduleIdempotent ==
    [][\A c \in Running :
          (Stepped(c) /\ c.pc = "sched_check" /\ Armed(jobs, c.rid, c.when)) =>
            /\ jobs' = jobs
            /\ calls' = Without(c)
            /\ Cardinality({j \in jobs' : j.rid = c.rid /\ j.when = c.when}) = 1]_vars

\* a second schedule_job call with the arguments of an armed timer is at its
\* presence check
C1_Witness ==
    \E c \in Running :
        /\ c.pc = "sched_check" /\ c.caller = "direct"
        /\ Cardinality({j \in jobs : j.rid = c.rid /\ j.when = c.when}) = 1

\* C2: a fire that runs for a reminder deleted from the store invokes the
\* sink for nobody, although its timer was armed before the deletion.
C2_DeletedNeverNotified ==
    [][\A c \in Running :
          (Stepped(c) /\ c.pc = "fire" /\ c.rid \in deleted) => sink' = sink]_vars

\* a reminder that was deleted while its timer was armed, whose fire has run
\* and found nothing, and for which nothing was ever printed
C2_Witness ==
    \E rid \in deleted : rid \in aborted /\ NotesOf(sink, rid) = {}

C4_RepeatAdvances ==
    /\ [][\A c \in Running :
            (Stepped(c) /\ c.pc = "fire" /\ c.rid \in DOMAIN db
               /\ db[c.rid].repeat_minutes # Null /\ db[c.rid].repeat_minutes[1] > 0) =>
              /\ calls' = Become(c, Call("fire_update", c.rid,
                                 (db[c.rid].schedule_time + db[c.rid].repeat_minutes[1]) * TicksPerMin,
                                 "fire"))
              /\ db' = db]_vars
    /\ [][\A c \in Running :
            (Stepped(c) /\ c.pc = "fire_update" /\ c.rid \in DOMAIN db) =>
              /\ db' = [db EXCEPT ![c.rid].schedule_time = c.when \div TicksPerMin]
              /\ db'[c.rid].schedule_time * TicksPerMin = c.when]_vars
    /\ [](\A c \in Running :
            (c.caller = "fire" /\ c.pc \in {"sched_check", "sched_add"} /\ c.rid \in DOMAIN db) =>
              db[c.rid].schedule_time * TicksPerMin = c.when)
    /\ [][\A c \in Running :
            (Stepped(c) /\ c.caller = "fire" /\ c.pc = "sched_check") =>
              calls' = Become(c, Call("sched_add", c.rid, c.when, "fire"))]_vars
    /\ [][\A c \in Running :
            (Stepped(c) /\ c.caller = "fire" /\ c.pc = "sched_add") =>
              Armed(jobs', c.rid, c.when) /\ calls' = Without(c)]_vars

\* a repeating reminder was notified for the time S, its stored time is now
\* S + r, a timer is armed at S + r, and the clock has already passed S + r:
\* the fire ran late
C4_Witness ==
    \E rid \in DOMAIN db : \E x \in NotesOf(sink, rid) :
        /\ db[rid].repeat_minutes # Null
        /\ db[rid].schedule_time = x.due + db[rid].repeat_minutes[1]
        /\ Armed(jobs, rid, db[rid].schedule_time * TicksPerMin)
        /\ CallsOf(rid) = {}
        /\ clock > db[rid].schedule_time * TicksPerMin

\* C5: a fire that finds a reminder whose repeat interval is absent or not
\* positive (as stored, or as it was entered in the form) leaves the store as it
\* is, arms no timer and ends.
C5_NoRepeatNoNext ==
    [][\A c \in Running :
          (Stepped(c) /\ c.pc = "fire" /\ c.rid \in DOMAIN db
             /\ \/ db[c.rid].repeat_minutes = Null
                \/ db[c.rid].repeat_minutes[1] <= 0
                \/ NoRepeatForm(formRepeat[c.rid])) =>
            /\ db' = db
            /\ jobs' = jobs
            /\ calls' = Without(c)]_vars

\* reminders entered with the repeat fields "0" and "-1" have both fired and
\* their stored times are what they were
C5_Witness ==
    \E a \in DOMAIN db, b \in DOMAIN db :
        /\ formRepeat[a] = "0" /\ formRepeat[b] = "-1"
        /\ NotesOf(sink, a) # {} /\ NotesOf(sink, b) # {}
        /\ \A x \in NotesOf(sink, a) : x.due = db[a].schedule_time
        /\ \A x \in NotesOf(sink, b) : x.due = db[b].schedule_time
        /\ jobs = {}

\* C6: while bootstrap runs (the process has just started, the job store was
\* empty), every row it has dealt with has a timer if and only if its stored time
\* is strictly after the now that bootstrap read - unless that timer has come due
\* and was handed to a worker already; a row whose time is past or equal to now
\* has no timer at all.  No step of bootstrap changes the store.
C6_BootstrapFutureOnly ==
    /\ [](boot.pc = "loop" =>
            \A k \in 1..(boot.i - 1) :
               LET r == boot.rows[k]
                   w == r.row.schedule_time * TicksPerMin
               IN  IF w > boot.now
                   THEN \/ Armed(jobs, r.id, w)
                        \/ \E c \in Running : c.caller = "boot" /\ c.rid = r.id /\ c.when = w
                        \/ w <= clock
                   ELSE TimersOf(jobs, r.id) = {} /\ CallsOf(r.id) = {})
    /\ [](boot.pc = "loop" /\ clock = boot.now =>
            \A k \in 1..Len(boot.rows) :
               /\ boot.rows[k].id \in DOMAIN db
               /\ db[boot.rows[k].id] = boot.rows[k].row)
    /\ [][(boot' # boot /\ ~Restarted) => db' = db]_vars
    /\ [][\A c \in Running : (Stepped(c) /\ c.caller = "boot") => db' = db]_vars

\* bootstrap has gone through a reminder due exactly at its now and one due
\* later, within the same instant: only the later one has a timer
C6_Witness ==
    /\ boot.pc = "loop"
    /\ boot.i > Len(boot.rows)
    /\ clock = boot.now
    /\ \E a \in 1..Len(boot.rows), b \in 1..Len(boot.rows) :
          /\ boot.rows[a].row.schedule_time * TicksPerMin = boot.now
          /\ boot.rows[b].row.schedule_time * TicksPerMin > boot.now
          /\ TimersOf(jobs, boot.rows[a].id) = {}
          /\ Armed(jobs, boot.rows[b].id, boot.rows[b].row.schedule_time * TicksPerMin)

\* C7: whoever calls schedule with a due time that is not strictly in the
\* future - creation, bootstrap, or the reschedule step of fire - the call does
\* nothing: no registry step follows it.
C7_PastDueIsNoOp ==
    /\ [][\A c \in Running :
            (Stepped(c) /\ c.pc = "index_cmp" /\ c.when <= clock) => calls' = Without(c)]_vars
    /\ [][(boot.pc = "loop" /\ boot' # boot /\ ~Restarted /\ boot.i <= Len(boot.rows)
             /\ boot.rows[boot.i].row.schedule_time * TicksPerMin <= boot.now) =>
            calls' = calls]_vars
    /\ [][\A c \in Running :
            (Stepped(c) /\ c.pc = "fire_update" /\ c.when <= clock) => calls' = Without(c)]_vars

C9_OneTimerPerOccurrence ==
    \A j1 \in jobs, j2 \in jobs :
        (j1.rid = j2.rid /\ j1.when = j2.when) => j1 = j2

\* a schedule_job call has passed its presence check and is about to add a job
\* for an id and time that another call has armed in the meantime
C9_Witness ==
    \E c \in Running : c.pc = "sched_add" /\ Armed(jobs, c.rid, c.when)

\* C10: every schedule_job call for a reminder that has no timer at that time
\* goes on to arm one, the new timer carries this reminder's id and no timer of
\* another reminder is lost for it; a worker runs with the id of the job it was
\* handed; and what a fire prints are the medication name and dosage of the row
\* of that id.
C10_OwnTimerOwnData ==
    /\ [][\A c \in Running :
            (Stepped(c) /\ c.pc = "sched_check" /\ ~Armed(jobs, c.rid, c.when)) =>
              calls' = Become(c, Call("sched_add", c.rid, c.when, c.caller))]_vars
    /\ [][\A c \in Running :
            (Stepped(c) /\ c.pc = "sched_add") =>
              /\ Armed(jobs', c.rid, c.when)
              /\ \A j \in jobs : j.rid # c.rid => j \in jobs']_vars
    /\ [][\A j \in jobs \ jobs' :
            ~Restarted =>
              \E c \in Running' : c.pc = "fire" /\ c.rid = j.rid
                                  /\ CopiesIn(c, calls') = CopiesIn(c, calls) + 1]_vars
    /\ [][\A c \in Running :
            (Stepped(c) /\ c.pc = "fire" /\ c.rid \in DOMAIN db) =>
              \E x \in sink' :
                 /\ sink' = sink \cup {x}
                 /\ x \notin sink
                 /\ x.rid = c.rid
                 /\ x.med = db[c.rid].med_name
                 /\ x.dosage = db[c.rid].dosage
                 /\ x.due = db[c.rid].schedule_time]_vars
    /\ [](\A x \in sink : \A rid \in DOMAIN db :
            x.rid = rid => x.med = db[rid].med_name /\ x.dosage = db[rid].dosage)

\* two stored reminders with different medications and the same time have both
\* been notified for that time, each with its own data
C10_Witness ==
    \E a \in DOMAIN db, b \in DOMAIN db :
        /\ a # b
        /\ db[a].med_name # db[b].med_name
        /\ db[a].repeat_minutes = Null /\ db[b].repeat_minutes = Null
        /\ db[a].schedule_time = db[b].schedule_time
        /\ \E x \in NotesOf(sink, a) : x.med = db[a].med_name /\ x.due = db[a].schedule_time
        /\ \E y \in NotesOf(sink, b) : y.med = db[b].med_name /\ y.due = db[b].schedule_time

----------------------------------------------------------------------------
\* C11: a repeating reminder that has a timer armed and is not deleted is
\* rescheduled again and again: if the scheduler runs every timer that has come
\* due, the occurrence the timer stands for is eventually notified and the timer
\* of the occurrence one interval later is armed, so that, by induction, the
\* occurrence at first_due + k * r is notified for every k whose due time lies
\* within the clock's horizon.
C11_RepeatsForever ==
    \A rid \in 1..MaxReminders : \A w \in 0..MaxClock :
        (/\ rid \in DOMAIN db
         /\ db[rid].repeat_minutes # Null
         /\ Armed(jobs, rid, w))
        ~> (\/ rid \in deleted
            \/ /\ \E x \in NotesOf(sink, rid) : x.due = IsoMinutes(w)
               /\ Armed(jobs, rid, FromIso(IsoMinutes(w) + db[rid].repeat_minutes[1])))

\* a repeating reminder has been notified for three occurrences in a row, one
\* interval apart, and the timer of the fourth is armed
C11_Witness ==
    \E rid \in DOMAIN db :
        /\ IsRepeating(db[rid].repeat_minutes)
        /\ \E x, y, z \in NotesOf(sink, rid) :
              /\ x.n = 1 /\ y.n = 2 /\ z.n = 3
              /\ y.due = x.due + db[rid].repeat_minutes[1]
              /\ z.due = y.due + db[rid].repeat_minutes[1]
              /\ Armed(jobs, rid, NextTime(z.due, db[rid].repeat_minutes[1]))

----------------------------------------------------------------------------
\* C12: no occurrence fires twice: whatever the sequence of creations, fires,
\* deletions and restarts of the process followed by its bootstrap, the sink
\* holds at most one notification for each pair of a reminder id and a due time.
C12_OccurrenceOnce ==
    \A x \in sink : \A y \in sink :
        (x.rid = y.rid /\ x.due = y.due) => x = y

\* a reminder was notified for its stored time, the process has since been
\* started anew and its bootstrap has gone through every row, that of the
\* notified reminder included, and the sink holds that one notification
C12_Witness ==
    /\ boot.pc = "loop"
    /\ boot.i > Len(boot.rows)
    /\ \E k \in 1..Len(boot.rows) :
          LET rid == boot.rows[k].id
          IN  /\ rid \in DOMAIN db
              /\ \E x \in NotesOf(sink, rid) :
                    /\ x.due = boot.rows[k].row.schedule_time
                    /\ x.due = db[rid].schedule_time
              /\ Cardinality(NotesOf(sink, rid)) = 1

----------------------------------------------------------------------------
\* C13: the occurrences of one reminder come one after the other.  A reminder
\* has at most one timer armed or being armed; while a fire of it is running it
\* has none; every timer armed for it stands for an occurrence later than every
\* occurrence already notified, and, once the reminder has been notified, for
\* the occurrence one interval after the last notified one.  Its notifications
\* are in the order of their due times.
LastDue(rid) == CHOOSE d \in {x.due : x \in NotesOf(sink, rid)} :
                    \A x \in NotesOf(sink, rid) : x.due <= d

C13_OccurrencesInOrder ==
    \A rid \in 1..MaxReminders :
        /\ Cardinality(TimersOf(jobs, rid)) <= 1
        /\ \A c \in CallsOf(rid) :
              c.caller = "fire" => TimersOf(jobs, rid) = {}
        /\ \A x \in NotesOf(sink, rid) : \A y \in NotesOf(sink, rid) :
              x.n < y.n => x.due < y.due
        /\ \A j \in TimersOf(jobs, rid) :
              /\ \A x \in NotesOf(sink, rid) : x.due < IsoMinutes(j.when)
              /\ (rid \in DOMAIN db /\ NotesOf(sink, rid) # {}) =>
                    /\ db[rid].repeat_minutes # Null
                    /\ IsoMinutes(j.when) = LastDue(rid) + db[rid].repeat_minutes[1]

\* the timer of a reminder's third occurrence is armed, and the first two
\* occurrences have been notified, in that order
C13_Witness ==
    \E rid \in DOMAIN db :
        /\ db[rid].repeat_minutes # Null
        /\ \E x, y \in NotesOf(sink, rid) :
              /\ x.n = 1 /\ y.n = 2
              /\ x.due < y.due
              /\ Armed(jobs, rid, FromIso(y.due + db[rid].repeat_minutes[1]))

----------------------------------------------------------------------------
\* C14: whenever a timer is armed for a stored reminder and no fire of that
\* reminder is in progress, the time the timer is due at is the reminder's
\* stored schedule_time.
FireInProgress(rid) == \E c \in CallsOf(rid) : c.caller = "fire"

C14_TimerAtStoredTime ==
    \A rid \in DOMAIN db : \A j \in TimersOf(jobs, rid) :
        ~FireInProgress(rid) => j.when = FromIso(db[rid].schedule_time)

----------------------------------------------------------------------------
\* C15: a fire that finds no record of its reminder aborts silently: it writes
\* nothing to the sink, leaves the store as it is (the deleted record is not
\* created again), arms no timer and ends; and no job of that reminder, the one
\* that started the fire included, is in the job store when it has ended.
C15_AbortIsSilent ==
    [][\A c \in Running :
          (Stepped(c) /\ c.pc = "fire" /\ c.rid \notin DOMAIN db) =>
             /\ sink' = sink
             /\ db' = db
             /\ nextId' = nextId
             /\ jobs' = jobs
             /\ calls' = Without(c)
             /\ TimersOf(jobs', c.rid) = {}]_vars

\* the timer of a deleted reminder has fired and the fire has aborted: nothing
\* of the reminder is left in the store, the job store or on a thread
C15_Witness ==
    \E rid \in aborted :
        /\ rid \notin DOMAIN db
        /\ TimersOf(jobs, rid) = {}
        /\ CallsOf(rid) = {}
        /\ NotesOf(sink, rid) = {}

----------------------------------------------------------------------------
\* C17: a fire of reminder id changes at most the schedule_time of record id
\* and the timers of reminder id.  Every statement of fire_reminder, the
\* schedule_job it ends with included, and the removal of its job as it starts,
\* leaves the set of records, the medication name, dosage, interval and
\* creation time of record id, every record of another reminder and every
\* timer of another reminder as they were; so does a fire that aborts.
SameButScheduleTime(old, new) == new = [old EXCEPT !.schedule_time = new.schedule_time]

FrameOfFire(rid) ==
    /\ DOMAIN db' = DOMAIN db
    /\ nextId' = nextId
    /\ \A other \in DOMAIN db :
          IF other = rid
          THEN SameButScheduleTime(db[other], db'[other])
          ELSE db'[other] = db[other]
    /\ \A other \in 1..MaxReminders :
          other # rid => TimersOf(jobs', other) = TimersOf(jobs, other)

C17_FireFrame ==
    /\ [][\A c \in Running :
            (Stepped(c) /\ c.caller = "fire") => FrameOfFire(c.rid)]_vars
    /\ [][\A j \in jobs \ jobs' : ~Restarted => FrameOfFire(j.rid)]_vars

\* next to another stored reminder whose timer is armed, a repeating reminder
\* has fired and has been rescheduled: its stored time is one interval after
\* the notified one and its next timer is armed
C17_Witness ==
    \E a \in DOMAIN db, b \in DOMAIN db :
        /\ a # b
        /\ db[a].repeat_minutes # Null
        /\ \E x \in NotesOf(sink, a) :
              db[a].schedule_time = x.due + db[a].repeat_minutes[1]
        /\ Armed(jobs, a, FromIso(db[a].schedule_time))
        /\ TimersOf(jobs, b) # {}
        /\ NotesOf(sink, b) = {}

----------------------------------------------------------------------------
\* C16: however delete(id) interleaves with a fire of id, the reminder ends up
\* terminal: once it has been deleted, eventually and from then on for ever it
\* has no record, no thread is working on it, and no timer of it that comes due
\* within the clock's horizon is armed.  This covers the delete that commits
\* after the fire has found the record and before it stores the next time and
\* arms the next timer: that timer is armed for the deleted reminder, comes due,
\* and its fire aborts.
Terminal(rid) ==
    /\ rid \notin DOMAIN db
    /\ CallsOf(rid) = {}
    /\ \A j \in TimersOf(jobs, rid) : j.when > MaxClock

C16_DeleteReachesTerminal ==
    \A rid \in 1..MaxReminders : (rid \in deleted) ~> [](Terminal(rid))

\* the delete has committed after a fire of the reminder has found the record
\* and printed it, and before the fire stores the next time: the fire is about
\* to run its UPDATE on no row and to arm a timer, due within the horizon, for
\* the deleted reminder
C16_Witness ==
    \E rid \in deleted :
        /\ rid \notin DOMAIN db
        /\ NotesOf(sink, rid) # {}
        /\ \E c \in CallsOf(rid) :
              c.caller = "fire" /\ c.pc = "fire_update" /\ c.when <= MaxClock

====
